---- MODULE Spec2Model ----
(***************************************************************************)
(* A model of ethdb/remote/bolt_remote.go: the Server dispatch loop of the  *)
(* remote read-only bolt protocol, one session.  A step of the model is one *)
(* iteration of the loop: one command, its arguments, its reply and, when   *)
(* the iteration leaves Server, the deferred calls.                         *)
(*                                                                         *)
(* Four specifications share the session:                                  *)
(*   Spec          one Server session fed by an arbitrary client;          *)
(*   ClientSpec    NewDB and DB.View driving a session over a stream;      *)
(*   ListenerSpec  the accept loop of Listener;                            *)
(*   SessionsSpec  two sessions Listener has spawned, interleaved.         *)
(***************************************************************************)
EXTENDS Integers, Sequences, FiniteSets, TLC

VARIABLES
    pc,               \* "loop": at the head of the for loop of Server; "CmdEndTx": in
                      \* case CmdEndTx, before the handle is decoded; "unwinding": a
                      \* return statement is executed, deferred calls are running;
                      \* "returned": Server has returned
    result,           \* what Server returns: "running" until it returns, "nil", or the error
    inEOF,            \* the input stream is exhausted (a read has met its end)
    cmd,              \* the command read last: c, its decoded arguments, and codec failures
    lastError,        \* var lastError error
    lastHandle,       \* var lastHandle uint64
    transactions,     \* map[uint64]*bolt.Tx          handle -> transaction
    buckets,          \* map[uint64]*bolt.Bucket      handle -> bucket
    bucketsByTx,      \* map[uint64][]uint64          tx handle -> bucket handles
    cursors,          \* map[uint64]*bolt.Cursor      handle -> cursor
    cursorsByBucket,  \* map[uint64][]uint64          bucket handle -> cursor handles
    out,              \* the values encoded to out by the handler of the command read last
    deferred,         \* the stack of deferred calls of Server, last deferred last
    unwound,          \* the deferred calls run when Server returned, in the order run
    dbtx,             \* the store's transactions: tx -> number of Rollback calls on it
    issued,           \* every handle allocated so far -> [kind, parent handle]
    client,           \* the client side of the stream: NewDB and DB.View
    c2s,              \* the values the client has encoded and Server has not decoded yet
    s2c,              \* the values Server has encoded and the client has not decoded yet
    listener,         \* Listener: its place in the accept loop, interruptCh
    sessions          \* the sessions spawned by Listener that are not running a step

\* The variables of one Server session and of the store.
svars == << pc, result, inEOF, cmd, lastError, lastHandle, transactions, buckets,
            bucketsByTx, cursors, cursorsByBucket, out, deferred, unwound, dbtx,
            issued >>

\* The variables of what is around the session.
envvars == << client, c2s, s2c, listener, sessions >>

vars == << pc, result, inEOF, cmd, lastError, lastHandle, transactions, buckets,
           bucketsByTx, cursors, cursorsByBucket, out, deferred, unwound, dbtx,
           issued, client, c2s, s2c, listener, sessions >>

registries == << transactions, buckets, bucketsByTx, cursors, cursorsByBucket >>

-----------------------------------------------------------------------------
(* Bounds of the model. *)

\* The session allocates at most this many handles.
MaxHandles == 3
\* The session given well-formed commands alone allocates at most this many.
MaxFrameHandles == 4
\* The largest count n a client sends with Next.
MaxN == 2

-----------------------------------------------------------------------------
(* Program constants. *)

Version == 1

\* The command tags (Command, an uint8).  CmdUnknown stands for every tag that
\* is none of the nine; NoCommand for "no command read yet".
CmdVersion == "CmdVersion"
CmdLastError == "CmdLastError"
CmdBeginTx == "CmdBeginTx"
CmdEndTx == "CmdEndTx"
CmdBucket == "CmdBucket"
CmdGet == "CmdGet"
CmdCursor == "CmdCursor"
CmdSeek == "CmdSeek"
CmdNext == "CmdNext"
CmdUnknown == "unknown"
NoCommand == "none"

NilError == "nil"
ErrTxNotFound == "transaction not found"
ErrBucketNotFound == "bucket not found"
ErrCursorNotFound == "cursor not found"
\* The error of db.Begin when the store cannot start a transaction.
ErrBegin == "database not open"

-----------------------------------------------------------------------------
(* Values on the wire.  A byte string is a sequence of bytes; an absent     *)
(* byte string (Go nil) is its own value, different from the empty one.     *)

WUint(n) == [t |-> "uint", u |-> n, b |-> << >>, s |-> ""]
WString(s) == [t |-> "string", u |-> 0, b |-> << >>, s |-> s]
WBytes(b) == [t |-> "bytes", u |-> 0, b |-> b, s |-> ""]
WNil == [t |-> "nil", u |-> 0, b |-> << >>, s |-> ""]

\* The type a reader of the stream decodes a value as: []byte takes both a
\* byte string and nil.
WireType(v) == IF v.t \in {"bytes", "nil"} THEN "bytes?" ELSE v.t

\* fmt.Sprintf("%v", err)
Sprintf(err) == IF err = NilError THEN "<nil>" ELSE err

-----------------------------------------------------------------------------
(* The store (bolt), read-only.  Keys are byte strings in ascending          *)
(* lexicographic order, as bytes.Compare orders them.                        *)

Min(a, b) == IF a < b THEN a ELSE b

\* bytes.Compare(a, b) < 0
BytesLess(a, b) ==
    \E i \in 1..(Min(Len(a), Len(b)) + 1) :
        /\ \A j \in 1..(i - 1) : a[j] = b[j]
        /\ \/ i > Len(a) /\ i <= Len(b)
           \/ i <= Len(a) /\ i <= Len(b) /\ a[i] < b[i]

DataName == << 1 >>
AbsentName == << 2 >>

\* The buckets of the store: name -> its pairs in key order.  One value is the
\* empty byte string.
Store ==
    [name \in {DataName} |->
        << [k |-> << 1 >>, v |-> << 7 >>],
           [k |-> << 1, 2 >>, v |-> << >>],
           [k |-> << 2 >>, v |-> << 9 >>] >>]

\* tx.Bucket(name) # nil
TxBucket(name) == name \in DOMAIN Store

\* bucket.Get(key): the value, or nil when the key is absent.
BucketGet(name, key) ==
    LET ps == Store[name]
        hit == {i \in 1..Len(ps) : ps[i].k = key}
    IN  IF hit = {} THEN WNil ELSE WBytes(ps[CHOOSE i \in hit : TRUE].v)

\* A cursor is [bucket, tx, pos]: pos 0 is a cursor not positioned yet, 1..K the
\* pair it stands on, K+1 behind the last pair.
NewCursor(b) == [bucket |-> b.name, tx |-> b.tx, pos |-> 0]

CursorKey(cur) ==
    LET ps == Store[cur.bucket]
    IN  IF cur.pos \in 1..Len(ps) THEN WBytes(ps[cur.pos].k) ELSE WNil

CursorValue(cur) ==
    LET ps == Store[cur.bucket]
    IN  IF cur.pos \in 1..Len(ps) THEN WBytes(ps[cur.pos].v) ELSE WNil

\* cursor.Seek(seekKey): stand on the smallest key >= seekKey, or behind the last.
CursorSeek(cur, seekKey) ==
    LET ps == Store[cur.bucket]
        ge == {i \in 1..Len(ps) : ~BytesLess(ps[i].k, seekKey)}
        p  == IF ge = {} THEN Len(ps) + 1
              ELSE CHOOSE i \in ge : \A j \in ge : i <= j
        c2 == [cur EXCEPT !.pos = p]
    IN  [cursor |-> c2, key |-> CursorKey(c2), value |-> CursorValue(c2)]

\* cursor.Next(): move to the next pair and return it; with no next pair (and on
\* a cursor never positioned) stay and return nil.
CursorNext(cur) ==
    LET ps == Store[cur.bucket]
    IN  IF cur.pos >= 1 /\ cur.pos < Len(ps)
        THEN LET c2 == [cur EXCEPT !.pos = cur.pos + 1]
             IN  [cursor |-> c2, key |-> CursorKey(c2), value |-> CursorValue(c2)]
        ELSE [cursor |-> cur, key |-> WNil, value |-> WNil]

-----------------------------------------------------------------------------
(* The codec and the inputs of a session. *)

\* The handles, names, keys and counts a client sends.  Handle 0 is never
\* issued, so it stands for every handle the session does not know.
ClientHandles == 0..lastHandle
Names == {DataName, AbsentName}
GetKeys == {<< 1, 2 >>, << 2 >>, << 2, 2 >>}
SeekKeys == {<< >>, << 1, 1 >>, << 2, 2 >>}
Counts == 0..MaxN

\* decoder.Decode of an argument fails by the end of the input ("eof") or by a
\* value that is not of the type asked for ("bad").
NoFail == [arg |-> "none", kind |-> "none"]
FailedDecodes(args) == {[arg |-> a, kind |-> k] : a \in args, k \in {"eof", "bad"}}

\* What a client sends after a command tag, and what the codec does with it:
\* either the decode of one of `args` fails, or handle h, byte string a and
\* count n are decoded and the failAt-th Encode of the reply fails (0: none).
Inputs(args, As, Ns, encodes) ==
    {[h |-> 0, a |-> << >>, n |-> 0, d |-> f, failAt |-> 0] : f \in FailedDecodes(args)}
    \cup
    {[h |-> h, a |-> a, n |-> n, d |-> NoFail, failAt |-> e] :
        h \in ClientHandles, a \in As, n \in Ns, e \in 0..encodes}

\* encoder.Encode of `vals` in turn, the failAt-th call failing (0: none does):
\* the values written.
Encoded(vals, failAt) ==
    IF failAt = 0 THEN vals ELSE SubSeq(vals, 1, failAt - 1)

Range(f) == {f[x] : x \in DOMAIN f}
Restrict(f, S) == [x \in S |-> f[x]]

Command(c, h, a, n, derr, eerr) ==
    [c |-> c, handle |-> h, arg |-> a, n |-> n, decodeErr |-> derr, encodeErr |-> eerr]

-----------------------------------------------------------------------------
(* Server. *)

\* No client, no Listener: the session alone.
NoClient == [pc |-> "none"]
NoListener == [pc |-> "none"]
NoSessions == [running |-> 0, saved |-> << >>]
EnvInit ==
    /\ client = NoClient
    /\ c2s = << >>
    /\ s2c = << >>
    /\ listener = NoListener
    /\ sessions = NoSessions

\* Server before its loop, lines 122-145.
ServerInit ==
    /\ pc = "loop"
    /\ result = "running"
    /\ inEOF = FALSE
    /\ cmd = Command(NoCommand, 0, << >>, 0, "none", FALSE)
    /\ lastError = NilError
    /\ lastHandle = 0
    /\ transactions = << >>
    /\ buckets = << >>
    /\ bucketsByTx = << >>
    /\ cursors = << >>
    /\ cursorsByBucket = << >>
    /\ out = << >>
    /\ deferred = << [f |-> "closer.Close", tx |-> 0] >>
    /\ unwound = << >>
    /\ dbtx = << >>
    /\ issued = << >>

Init == ServerInit /\ EnvInit

\* NextHandle without the increment.
NextHandleNoIncrement == lastHandle

\* lastHandle++; the counter is an uint64 and the bounds keep it far from 2^64.
NextHandle == lastHandle + 1

\* DeferRollback deferring nothing.
DeferNothing(tx) == deferred

\* defer func() { tx.Rollback() }() of CmdBeginTx
DeferRollback(tx) == Append(deferred, [f |-> "tx.Rollback", tx |-> tx])

\* The deferred calls in the order Go runs them: last deferred first.
RunDeferred(defs) == [i \in 1..Len(defs) |-> defs[Len(defs) + 1 - i]]

\* The end of an iteration: back to the head of the loop, or, with an error or
\* at the end of the input, the return statement: the result is fixed and the
\* deferred calls are still to run.
Exit(err, db, defs) ==
    /\ pc' = IF err = "none" THEN "loop" ELSE "unwinding"
    /\ result' = IF err = "none" THEN "running" ELSE err
    /\ deferred' = defs
    /\ unwound' = unwound
    /\ dbtx' = db

\* The store after the deferred call d ran on it.
DbAfterCall(db, d) ==
    IF d.f = "tx.Rollback" THEN [db EXCEPT ![d.tx] = @ + 1] ELSE db

\* Server, having executed a return statement, runs the deferred call deferred
\* last (lines 123-127 and 173-177); after the first one deferred, closer.Close,
\* it has returned.  Other goroutines run between two deferred calls.
RunDeferredCall ==
    /\ pc = "unwinding"
    /\ deferred # << >>
    /\ LET d == deferred[Len(deferred)]
       IN  /\ deferred' = SubSeq(deferred, 1, Len(deferred) - 1)
           /\ unwound' = Append(unwound, d)
           /\ dbtx' = DbAfterCall(dbtx, d)
    /\ pc' = IF Len(deferred) = 1 THEN "returned" ELSE "unwinding"
    /\ UNCHANGED << cmd, out, result, inEOF, lastError, lastHandle, registries, issued >>

\* ReplyError returning the application error the handler has just stored.
ReplyErrorWithLastError(appErr, failAt) ==
    IF failAt # 0 THEN "encode error"
    ELSE IF appErr # NilError THEN "application error" ELSE "none"

\* What a handler that has stored appErr in lastError and encodes its reply
\* returns: the error of a failed Encode, and nothing for appErr.
ReplyError(appErr, failAt) == IF failAt # 0 THEN "encode error" ELSE "none"

\* decoder.Decode(&c) meets io.EOF: break, return nil.
AtEOF ==
    /\ pc = "loop"
    /\ inEOF' = TRUE
    /\ cmd' = Command(NoCommand, 0, << >>, 0, "command", FALSE)
    /\ Exit("nil", dbtx, deferred)
    /\ out' = << >>
    /\ UNCHANGED << lastError, lastHandle, registries, issued >>

\* decoder.Decode(&c) fails otherwise: return err.
CommandDecodeError ==
    /\ pc = "loop" /\ ~inEOF
    /\ cmd' = Command(NoCommand, 0, << >>, 0, "command", FALSE)
    /\ Exit("decode error", dbtx, deferred)
    /\ out' = << >>
    /\ UNCHANGED << inEOF, lastError, lastHandle, registries, issued >>

\* default: return fmt.Errorf("unknown command %d", c)
CaseDefault ==
    /\ pc = "loop" /\ ~inEOF
    /\ cmd' = Command(CmdUnknown, 0, << >>, 0, "none", FALSE)
    /\ Exit("unknown command", dbtx, deferred)
    /\ out' = << >>
    /\ UNCHANGED << inEOF, lastError, lastHandle, registries, issued >>

VersionReply == << WUint(Version) >>

CaseCmdVersion ==
    \E failAt \in 0..1 :
        /\ pc = "loop" /\ ~inEOF
        /\ cmd' = Command(CmdVersion, 0, << >>, 0, "none", failAt # 0)
        /\ out' = Encoded(VersionReply, failAt)
        /\ Exit(ReplyError(NilError, failAt), dbtx, deferred)
        /\ UNCHANGED << inEOF, lastError, lastHandle, registries, issued >>

LastErrorReply == << WString(Sprintf(lastError)) >>

CaseCmdLastError ==
    \E failAt \in 0..1 :
        /\ pc = "loop" /\ ~inEOF
        /\ cmd' = Command(CmdLastError, 0, << >>, 0, "none", failAt # 0)
        /\ out' = Encoded(LastErrorReply, failAt)
        /\ Exit(ReplyError(NilError, failAt), dbtx, deferred)
        /\ UNCHANGED << inEOF, lastError, lastHandle, registries, issued >>

\* tx, lastError = db.Begin(false) and the registration of the transaction.
\* The store numbers its transactions in the order they begin.
CaseCmdBeginTx ==
    \E beginOk \in BOOLEAN, failAt \in 0..1 :
        LET txHandle == IF beginOk THEN NextHandle ELSE 0
            tx == Cardinality(DOMAIN dbtx) + 1
            defs == IF beginOk THEN DeferRollback(tx) ELSE deferred
            db == IF beginOk THEN dbtx @@ (tx :> 0) ELSE dbtx
        IN  /\ pc = "loop" /\ ~inEOF
            /\ beginOk => lastHandle < MaxFrameHandles
            /\ cmd' = Command(CmdBeginTx, 0, << >>, 0, "none", failAt # 0)
            /\ lastError' = IF beginOk THEN NilError ELSE ErrBegin
            /\ lastHandle' = IF beginOk THEN txHandle ELSE lastHandle
            /\ transactions' = IF beginOk THEN transactions @@ (txHandle :> tx)
                               ELSE transactions
            /\ issued' = IF beginOk
                         THEN issued @@ (txHandle :> [kind |-> "tx", parent |-> 0])
                         ELSE issued
            /\ out' = Encoded(<< WUint(txHandle) >>, failAt)
            /\ Exit(ReplyError(IF beginOk THEN NilError ELSE ErrBegin, failAt), db, defs)
            /\ UNCHANGED << inEOF, buckets, bucketsByTx, cursors, cursorsByBucket >>

\* EndTxCascade forgetting the cursors: lines 196-201 left out.
EndTxCascadeKeepsCursors(txHandle) ==
    LET bhs == IF txHandle \in DOMAIN bucketsByTx
               THEN Range(bucketsByTx[txHandle]) ELSE {}
    IN  [buckets |-> Restrict(buckets, DOMAIN buckets \ bhs),
         bucketsByTx |-> Restrict(bucketsByTx, DOMAIN bucketsByTx \ {txHandle}),
         cursors |-> cursors,
         cursorsByBucket |-> cursorsByBucket]

\* EndTxCascade emptying the registries of buckets and cursors, whoever owns
\* them.
EndTxCascadeAll(txHandle) ==
    [buckets |-> << >>, bucketsByTx |-> << >>,
     cursors |-> << >>, cursorsByBucket |-> << >>]

\* EndTxCascade keeping the cursor lists of the buckets: line 200 left out.
EndTxCascadeKeepsLists(txHandle) ==
    LET bhs == IF txHandle \in DOMAIN bucketsByTx
               THEN Range(bucketsByTx[txHandle]) ELSE {}
        chs == UNION {Range(cursorsByBucket[b]) : b \in bhs \cap DOMAIN cursorsByBucket}
    IN  [buckets |-> Restrict(buckets, DOMAIN buckets \ bhs),
         bucketsByTx |-> Restrict(bucketsByTx, DOMAIN bucketsByTx \ {txHandle}),
         cursors |-> Restrict(cursors, DOMAIN cursors \ chs),
         cursorsByBucket |-> cursorsByBucket]

\* CmdEndTx, lines 194-205: the registries without the buckets of txHandle and
\* without the cursors of those buckets.
EndTxCascade(txHandle) ==
    LET bhs == IF txHandle \in DOMAIN bucketsByTx
               THEN Range(bucketsByTx[txHandle]) ELSE {}
        chs == UNION {Range(cursorsByBucket[b]) : b \in bhs \cap DOMAIN cursorsByBucket}
    IN  IF txHandle \in DOMAIN bucketsByTx
        THEN [buckets |-> Restrict(buckets, DOMAIN buckets \ bhs),
              bucketsByTx |-> Restrict(bucketsByTx, DOMAIN bucketsByTx \ {txHandle}),
              cursors |-> Restrict(cursors, DOMAIN cursors \ chs),
              cursorsByBucket |-> Restrict(cursorsByBucket, DOMAIN cursorsByBucket \ bhs)]
        ELSE [buckets |-> buckets, bucketsByTx |-> bucketsByTx,
              cursors |-> cursors, cursorsByBucket |-> cursorsByBucket]

\* EndTxForget forgetting nothing: line 210 left out.
EndTxForgetNothing(txHandle) == transactions

\* CmdEndTx, line 210: delete(transactions, txHandle)
EndTxForget(txHandle) == Restrict(transactions, DOMAIN transactions \ {txHandle})

\* case CmdEndTx from Decode(&txHandle) on, lines 187-214.
CmdEndTxFromHandle ==
    \E i \in Inputs({"txHandle"}, {<< >>}, {0}, 0), rollbackOk \in BOOLEAN :
        LET d == i.d
            txHandle == i.h
            ok == txHandle \in DOMAIN transactions
            after == EndTxCascade(txHandle)
        IN  /\ ~rollbackOk => ok /\ d.arg = "none"
            /\ cmd' = Command(CmdEndTx, txHandle, << >>, 0, d.arg, FALSE)
            /\ inEOF' = (d.kind = "eof")
            /\ out' = << >>
            /\ UNCHANGED << lastHandle, issued >>
            /\ IF d.arg # "none"
               THEN /\ Exit("decode error", dbtx, deferred)
                    /\ UNCHANGED << lastError, registries >>
               ELSE IF ~ok
               THEN /\ lastError' = ErrTxNotFound
                    /\ Exit("none", dbtx, deferred)
                    /\ UNCHANGED registries
               ELSE LET tx == transactions[txHandle]
                        db == [dbtx EXCEPT ![tx] = @ + 1]
                    IN  /\ buckets' = after.buckets
                        /\ bucketsByTx' = after.bucketsByTx
                        /\ cursors' = after.cursors
                        /\ cursorsByBucket' = after.cursorsByBucket
                        /\ IF rollbackOk
                           THEN /\ transactions' = EndTxForget(txHandle)
                                /\ lastError' = NilError
                                /\ Exit("none", db, deferred)
                           ELSE /\ Exit("rollback error", db, deferred)
                                /\ UNCHANGED << transactions, lastError >>

\* The tag CmdEndTx and its handle, read from an input that holds both or ends.
CaseCmdEndTx ==
    /\ pc = "loop" /\ ~inEOF
    /\ CmdEndTxFromHandle

\* BucketLastError with the two messages the wrong way round.
BucketLastErrorSwapped(txOk, found) ==
    IF ~txOk THEN ErrBucketNotFound
    ELSE IF ~found THEN ErrTxNotFound ELSE NilError

\* CmdBucket, lines 229-249: lastError after the lookups.
BucketLastError(txOk, found) ==
    IF ~txOk THEN ErrTxNotFound
    ELSE IF ~found THEN ErrBucketNotFound ELSE NilError

CaseCmdBucket ==
    \E i \in Inputs({"txHandle", "name"}, Names, {0}, 1) :
        LET d == i.d
            failAt == i.failAt
            txHandle == i.h
            name == i.a
            txOk == txHandle \in DOMAIN transactions
            found == txOk /\ TxBucket(name)
            bucketHandle == IF found THEN NextHandle ELSE 0
        IN  /\ pc = "loop" /\ ~inEOF
            /\ found => lastHandle < MaxFrameHandles
            /\ cmd' = Command(CmdBucket, txHandle, name, 0, d.arg,
                              d.arg = "none" /\ failAt # 0)
            /\ inEOF' = (d.kind = "eof")
            /\ UNCHANGED << transactions, cursors, cursorsByBucket >>
            /\ IF d.arg # "none"
               THEN /\ Exit("decode error", dbtx, deferred)
                    /\ out' = << >>
                    /\ UNCHANGED << lastError, lastHandle, buckets, bucketsByTx, issued >>
               ELSE /\ lastError' = BucketLastError(txOk, found)
                    /\ IF found
                       THEN /\ lastHandle' = bucketHandle
                            /\ buckets' = buckets @@
                                 (bucketHandle :> [name |-> name, tx |-> transactions[txHandle]])
                            /\ bucketsByTx' =
                                 IF txHandle \in DOMAIN bucketsByTx
                                 THEN [bucketsByTx EXCEPT ![txHandle] = Append(@, bucketHandle)]
                                 ELSE bucketsByTx @@ (txHandle :> << bucketHandle >>)
                            /\ issued' = issued @@
                                 (bucketHandle :> [kind |-> "bucket", parent |-> txHandle])
                       ELSE UNCHANGED << lastHandle, buckets, bucketsByTx, issued >>
                    /\ out' = Encoded(<< WUint(bucketHandle) >>, failAt)
                    /\ Exit(ReplyError(BucketLastError(txOk, found), failAt), dbtx, deferred)

\* GetLastError not resetting lastError on success: line 268 left out.
GetLastErrorNoReset(ok) == IF ok THEN lastError ELSE ErrBucketNotFound

\* CmdGet, lines 266-271: lastError after the lookup.
GetLastError(ok) == IF ok THEN NilError ELSE ErrBucketNotFound

CaseCmdGet ==
    \E i \in Inputs({"bucketHandle", "key"}, GetKeys, {0}, 1) :
        LET d == i.d
            failAt == i.failAt
            bucketHandle == i.h
            key == i.a
            ok == bucketHandle \in DOMAIN buckets
            value == IF ok THEN BucketGet(buckets[bucketHandle].name, key) ELSE WNil
        IN  /\ pc = "loop" /\ ~inEOF
            /\ cmd' = Command(CmdGet, bucketHandle, key, 0, d.arg,
                              d.arg = "none" /\ failAt # 0)
            /\ inEOF' = (d.kind = "eof")
            /\ UNCHANGED << lastHandle, registries, issued >>
            /\ IF d.arg # "none"
               THEN /\ Exit("decode error", dbtx, deferred)
                    /\ out' = << >>
                    /\ UNCHANGED lastError
               ELSE /\ lastError' = GetLastError(ok)
                    /\ out' = Encoded(<< value >>, failAt)
                    /\ Exit(ReplyError(GetLastError(ok), failAt), dbtx, deferred)

\* CursorHandle replying the next value of the counter with no bucket too.
CursorHandleAlways(ok) == NextHandle

\* CmdCursor, lines 283-297: the handle of the new cursor, 0 with no bucket.
CursorHandle(ok) == IF ok THEN NextHandle ELSE 0

CaseCmdCursor ==
    \E i \in Inputs({"bucketHandle"}, {<< >>}, {0}, 1) :
        LET d == i.d
            failAt == i.failAt
            bucketHandle == i.h
            ok == bucketHandle \in DOMAIN buckets
            cursorHandle == CursorHandle(ok)
        IN  /\ pc = "loop" /\ ~inEOF
            /\ ok => lastHandle < MaxFrameHandles
            /\ cmd' = Command(CmdCursor, bucketHandle, << >>, 0, d.arg,
                              d.arg = "none" /\ failAt # 0)
            /\ inEOF' = (d.kind = "eof")
            /\ UNCHANGED << transactions, buckets, bucketsByTx >>
            /\ IF d.arg # "none"
               THEN /\ Exit("decode error", dbtx, deferred)
                    /\ out' = << >>
                    /\ UNCHANGED << lastError, lastHandle, cursors, cursorsByBucket, issued >>
               ELSE /\ IF ok
                       THEN /\ lastHandle' = cursorHandle
                            /\ cursors' = cursors @@
                                 (cursorHandle :> NewCursor(buckets[bucketHandle]))
                            /\ cursorsByBucket' =
                                 IF bucketHandle \in DOMAIN cursorsByBucket
                                 THEN [cursorsByBucket EXCEPT
                                         ![bucketHandle] = Append(@, cursorHandle)]
                                 ELSE cursorsByBucket @@ (bucketHandle :> << cursorHandle >>)
                            /\ issued' = issued @@
                                 (cursorHandle :> [kind |-> "cursor", parent |-> bucketHandle])
                            /\ lastError' = NilError
                       ELSE /\ lastError' = ErrBucketNotFound
                            /\ UNCHANGED << lastHandle, cursors, cursorsByBucket, issued >>
                    /\ out' = Encoded(<< WUint(cursorHandle) >>, failAt)
                    /\ Exit(ReplyError(IF ok THEN NilError ELSE ErrBucketNotFound, failAt),
                            dbtx, deferred)

\* SeekReply writing the key alone for an unknown cursor.
SeekReplyKeyOnly(ok, r) == IF ok THEN << r.key, r.value >> ELSE << WNil >>

\* CmdSeek, lines 313-327: the two values of the reply.
SeekReply(ok, r) == IF ok THEN << r.key, r.value >> ELSE << WNil, WNil >>

\* SeekLastError with line 316 left out: a found cursor leaves lastError as is.
SeekLastErrorKept(ok) == IF ok THEN lastError ELSE ErrCursorNotFound

\* CmdSeek, lines 314-319: lastError after the lookup.
SeekLastError(ok) == IF ok THEN NilError ELSE ErrCursorNotFound

\* SeekCursors with the registered cursor left where it was.
SeekCursorsUnmoved(ok, cursorHandle, r) == cursors

\* CmdSeek, lines 314-316: Seek moves the cursor registered under cursorHandle.
SeekCursors(ok, cursorHandle, r) ==
    IF ok THEN [cursors EXCEPT ![cursorHandle] = r.cursor] ELSE cursors

CaseCmdSeek ==
    \E i \in Inputs({"cursorHandle", "seekKey"}, SeekKeys, {0}, 2) :
        LET d == i.d
            failAt == i.failAt
            cursorHandle == i.h
            seekKey == i.a
            ok == cursorHandle \in DOMAIN cursors
            r == CursorSeek(cursors[cursorHandle], seekKey)
        IN  /\ pc = "loop" /\ ~inEOF
            /\ cmd' = Command(CmdSeek, cursorHandle, seekKey, 0, d.arg,
                              d.arg = "none" /\ failAt # 0)
            /\ inEOF' = (d.kind = "eof")
            /\ UNCHANGED << lastHandle, transactions, buckets, bucketsByTx,
                            cursorsByBucket, issued >>
            /\ IF d.arg # "none"
               THEN /\ Exit("decode error", dbtx, deferred)
                    /\ out' = << >>
                    /\ UNCHANGED << lastError, cursors >>
               ELSE /\ lastError' = SeekLastError(ok)
                    /\ cursors' = SeekCursors(ok, cursorHandle, r)
                    /\ out' = Encoded(SeekReply(ok, r), failAt)
                    /\ Exit(ReplyError(SeekLastError(ok), failAt), dbtx, deferred)

\* NextLoop without the break of lines 351-353: always n pairs.
RECURSIVE NextLoopNoBreak(_, _, _, _)
NextLoopNoBreak(cur, n, written, failAt) ==
    IF n = 0
    THEN [cursor |-> cur, out |-> written, err |-> FALSE]
    ELSE LET r == CursorNext(cur)
         IN  IF failAt = Len(written) + 1
             THEN [cursor |-> r.cursor, out |-> written, err |-> TRUE]
             ELSE IF failAt = Len(written) + 2
             THEN [cursor |-> r.cursor, out |-> Append(written, r.key), err |-> TRUE]
             ELSE NextLoopNoBreak(r.cursor, n - 1, written \o << r.key, r.value >>, failAt)

\* CmdNext, lines 340-354: the loop on a known cursor `cur` with numberOfKeys n,
\* `written` being the values encoded so far and the failAt-th Encode failing.
\* The cursor after the loop, the values written, and whether an Encode failed.
RECURSIVE NextLoop(_, _, _, _)
NextLoop(cur, n, written, failAt) ==
    IF n = 0
    THEN [cursor |-> cur, out |-> written, err |-> FALSE]
    ELSE LET r == CursorNext(cur)
         IN  IF failAt = Len(written) + 1
             THEN [cursor |-> r.cursor, out |-> written, err |-> TRUE]
             ELSE IF failAt = Len(written) + 2
             THEN [cursor |-> r.cursor, out |-> Append(written, r.key), err |-> TRUE]
             ELSE IF r.key = WNil
             THEN [cursor |-> r.cursor, out |-> written \o << r.key, r.value >>,
                   err |-> FALSE]
             ELSE NextLoop(r.cursor, n - 1, written \o << r.key, r.value >>, failAt)

\* CmdNext, lines 334-337: what a failed decode of numberOfKeys makes the
\* handler do: the error is logged and the handler goes on with numberOfKeys 0.
NextDecodeError(arg) == IF arg = "cursorHandle" THEN "decode error" ELSE "none"

\* NextLastError with line 355 left out: a found cursor leaves lastError as is.
NextLastErrorKept(ok) == IF ok THEN lastError ELSE ErrCursorNotFound

\* CmdNext, lines 339-358: lastError after the lookup.
NextLastError(ok) == IF ok THEN NilError ELSE ErrCursorNotFound

CaseCmdNext ==
    \E i \in Inputs({"cursorHandle"}, {<< >>}, Counts, 2 * MaxN) \cup
              {[h |-> h, a |-> << >>, n |-> 0, d |-> f, failAt |-> 0] :
                  h \in ClientHandles, f \in FailedDecodes({"numberOfKeys"})} :
        LET d == i.d
            failAt == i.failAt
            cursorHandle == i.h
            numberOfKeys == i.n
            ok == cursorHandle \in DOMAIN cursors
            r == IF ok THEN NextLoop(cursors[cursorHandle], numberOfKeys, << >>, failAt)
                 ELSE [cursor |-> << >>, out |-> << >>, err |-> FALSE]
        IN  /\ pc = "loop" /\ ~inEOF
            /\ failAt # 0 => r.err
            /\ cmd' = Command(CmdNext, cursorHandle, << >>, numberOfKeys, d.arg, r.err)
            /\ inEOF' = (d.kind = "eof")
            /\ UNCHANGED << lastHandle, transactions, buckets, bucketsByTx,
                            cursorsByBucket, issued >>
            /\ IF NextDecodeError(d.arg) # "none"
               THEN /\ Exit(NextDecodeError(d.arg), dbtx, deferred)
                    /\ out' = << >>
                    /\ UNCHANGED << lastError, cursors >>
               ELSE /\ cursors' = IF ok THEN [cursors EXCEPT ![cursorHandle] = r.cursor]
                                  ELSE cursors
                    /\ out' = r.out
                    /\ IF r.err
                       THEN /\ Exit("encode error", dbtx, deferred)
                            /\ UNCHANGED lastError
                       ELSE /\ lastError' = NextLastError(ok)
                            /\ Exit("none", dbtx, deferred)

\* One iteration of the loop of Server, whatever the command.
ServerStep ==
    \/ AtEOF
    \/ CommandDecodeError
    \/ CaseCmdVersion
    \/ CaseCmdLastError
    \/ CaseCmdBeginTx
    \/ CaseCmdEndTx
    \/ CaseCmdBucket
    \/ CaseCmdGet
    \/ CaseCmdCursor
    \/ CaseCmdSeek
    \/ CaseCmdNext
    \/ CaseDefault
    \/ RunDeferredCall

Next ==
    \/ AtEOF /\ UNCHANGED envvars
    \/ CommandDecodeError /\ UNCHANGED envvars
    \/ CaseCmdVersion /\ UNCHANGED envvars
    \/ CaseCmdLastError /\ UNCHANGED envvars
    \/ CaseCmdBeginTx /\ lastHandle' <= MaxHandles /\ UNCHANGED envvars
    \/ CaseCmdEndTx /\ UNCHANGED envvars
    \/ CaseCmdBucket /\ lastHandle' <= MaxHandles /\ UNCHANGED envvars
    \/ CaseCmdGet /\ UNCHANGED envvars
    \/ CaseCmdCursor /\ lastHandle' <= MaxHandles /\ UNCHANGED envvars
    \/ CaseCmdSeek /\ UNCHANGED envvars
    \/ CaseCmdNext /\ UNCHANGED envvars
    \/ CaseDefault /\ UNCHANGED envvars
    \/ RunDeferredCall /\ UNCHANGED envvars

Spec == Init /\ [][Next]_vars

-----------------------------------------------------------------------------
(* The client: NewDB and DB.View, lines 404-468, on one stream.  Each Encode *)
(* and each Decode of the client is a step.  The stream is a pipe: what the  *)
(* client encodes the peer decodes in the same order, and back.              *)

\* A command tag on the wire.
WCmd(c) == [t |-> "cmd", u |-> 0, b |-> << >>, s |-> c]

\* The errors of the client.
ErrEncode == "encode error"
ErrDecode == "decode error"
\* fmt.Errorf("returned version %d, expected %d", v, Version)
ErrVersion == "returned version, expected Version"
\* The error a closure f returns when it does not return nil.
ErrF == "f error"

\* What stands at the other end of the stream: Server, or a program that
\* answers the Version command with whatever it likes.
Peers == {"Server", "other"}
OtherVersionReplies == {WUint(0), WUint(Version), WUint(Version + 1), WString("hello")}

\* A call of NewDB or View starts: the record of the call is empty.
ClientCall(call, firstPc) ==
    [client EXCEPT !.pc = firstPc, !.call = call, !.ret = "none", !.txHandle = 0,
                   !.v = WNil, !.str = "", !.opErr = "none", !.fArg = 0,
                   !.events = << >>]

\* return from NewDB or View with `ret`; after a failed Encode or Decode the
\* caller uses the stream no further.
ClientReturn(cl, ret) ==
    [cl EXCEPT !.pc = IF ret \in {ErrEncode, ErrDecode} THEN "failed" ELSE "idle",
               !.ret = ret]

ClientInit ==
    /\ ServerInit
    /\ \E peer \in Peers :
        client = [pc |-> "idle", call |-> "none", peer |-> peer, db |-> FALSE,
                  closed |-> FALSE, ret |-> "none", txHandle |-> 0, v |-> WNil,
                  str |-> "", opErr |-> "none", fArg |-> 0, events |-> << >>]
    /\ c2s = << >>
    /\ s2c = << >>
    /\ listener = NoListener
    /\ sessions = NoSessions

\* decoder.Decode meets the end of the stream: the peer has returned and closed
\* it, and nothing is left to read.
StreamEnded == s2c = << >> /\ pc = "returned"

\* The caller calls NewDB(in, out).
CallNewDB ==
    /\ client.pc = "idle" /\ ~client.closed
    /\ client' = ClientCall("NewDB", "NewDB.encode")
    /\ UNCHANGED << svars, c2s, s2c, listener, sessions >>

\* NewDB, lines 411-414: encoder.Encode(&c) with c = CmdVersion.
NewDBEncode ==
    \E ok \in BOOLEAN :
        /\ client.pc = "NewDB.encode"
        /\ IF ok
           THEN /\ c2s' = Append(c2s, WCmd(CmdVersion))
                /\ client' = [client EXCEPT !.pc = "NewDB.decode",
                                            !.events = Append(@, CmdVersion)]
           ELSE /\ c2s' = c2s
                /\ client' = ClientReturn(client, ErrEncode)
        /\ UNCHANGED << svars, s2c, listener, sessions >>

\* NewDB with the comparison of line 419 left out.
NewDBResultNoCheck(v) == "DB"

\* NewDB, lines 419-422: the result for the decoded version v.
NewDBResult(v) == IF v # Version THEN ErrVersion ELSE "DB"

\* NewDB, lines 415-422: decoder.Decode(&v) and the comparison.
NewDBDecode ==
    /\ client.pc = "NewDB.decode"
    /\ \/ /\ s2c # << >> /\ Head(s2c).t = "uint"
          /\ s2c' = Tail(s2c)
          /\ client' = [ClientReturn(client, NewDBResult(Head(s2c).u)) EXCEPT
                          !.v = Head(s2c),
                          !.db = client.db \/ NewDBResult(Head(s2c).u) = "DB"]
       \/ /\ s2c # << >> /\ Head(s2c).t # "uint"
          /\ s2c' = Tail(s2c)
          /\ client' = ClientReturn(client, ErrDecode)
       \/ /\ StreamEnded
          /\ s2c' = s2c
          /\ client' = ClientReturn(client, ErrDecode)
    /\ UNCHANGED << svars, c2s, listener, sessions >>

\* The caller calls db.View(f) on a DB that NewDB returned.
CallView ==
    /\ client.pc = "idle" /\ ~client.closed
    /\ client.db /\ client.peer = "Server"
    /\ client' = ClientCall("View", "View.encodeBeginTx")
    /\ UNCHANGED << svars, c2s, s2c, listener, sessions >>

\* View, lines 438-441: encoder.Encode(&c) with c = CmdBeginTx.
ViewEncodeBeginTx ==
    \E ok \in BOOLEAN :
        /\ client.pc = "View.encodeBeginTx"
        /\ IF ok
           THEN /\ c2s' = Append(c2s, WCmd(CmdBeginTx))
                /\ client' = [client EXCEPT !.pc = "View.decodeTxHandle",
                                            !.events = Append(@, CmdBeginTx)]
           ELSE /\ c2s' = c2s
                /\ client' = ClientReturn(client, ErrEncode)
        /\ UNCHANGED << svars, s2c, listener, sessions >>

\* ViewAfterTxHandle without the test for 0: f is called whatever the handle.
ViewAfterTxHandleNoTest(txHandle) == "View.f"

\* View, lines 446 and 458: where View goes on with the handle it decoded.
ViewAfterTxHandle(txHandle) ==
    IF txHandle = 0 THEN "View.encodeLastError" ELSE "View.f"

\* View, lines 442-446: decoder.Decode(&txHandle) and the test for 0.
ViewDecodeTxHandle ==
    /\ client.pc = "View.decodeTxHandle"
    /\ \/ /\ s2c # << >> /\ Head(s2c).t = "uint"
          /\ s2c' = Tail(s2c)
          /\ client' = [client EXCEPT
                          !.txHandle = Head(s2c).u,
                          !.events = Append(@, "txHandle"),
                          !.pc = ViewAfterTxHandle(Head(s2c).u)]
       \/ /\ StreamEnded
          /\ s2c' = s2c
          /\ client' = ClientReturn(client, ErrDecode)
    /\ UNCHANGED << svars, c2s, listener, sessions >>

\* View, lines 448-451: encoder.Encode(&c) with c = CmdLastError.
ViewEncodeLastError ==
    \E ok \in BOOLEAN :
        /\ client.pc = "View.encodeLastError"
        /\ IF ok
           THEN /\ c2s' = Append(c2s, WCmd(CmdLastError))
                /\ client' = [client EXCEPT !.pc = "View.decodeLastError",
                                            !.events = Append(@, CmdLastError)]
           ELSE /\ c2s' = c2s
                /\ client' = ClientReturn(client, ErrEncode)
        /\ UNCHANGED << svars, s2c, listener, sessions >>

\* View, lines 452-456: decoder.Decode(&lastErrorStr), return fmt.Errorf("%v", ...).
ViewDecodeLastError ==
    /\ client.pc = "View.decodeLastError"
    /\ \/ /\ s2c # << >> /\ Head(s2c).t = "string"
          /\ s2c' = Tail(s2c)
          /\ client' = [ClientReturn(client, Head(s2c).s) EXCEPT
                          !.str = Head(s2c).s,
                          !.events = Append(@, "lastErrorStr")]
       \/ /\ StreamEnded
          /\ s2c' = s2c
          /\ client' = ClientReturn(client, ErrDecode)
    /\ UNCHANGED << svars, c2s, listener, sessions >>

\* View, lines 458-459: tx := &Tx{db, txHandle}; opErr := f(tx).  The closure
\* returns nil or an error; Tx has no method that uses the stream.
ViewCallF ==
    \E opErr \in {NilError, ErrF} :
        /\ client.pc = "View.f"
        /\ client' = [client EXCEPT !.pc = "View.encodeEndTx",
                                    !.opErr = opErr,
                                    !.fArg = client.txHandle,
                                    !.events = Append(@, "f")]
        /\ UNCHANGED << svars, c2s, s2c, listener, sessions >>

\* View, lines 460-463: encoder.Encode(&c) with c = CmdEndTx.
ViewEncodeEndTx ==
    \E ok \in BOOLEAN :
        /\ client.pc = "View.encodeEndTx"
        /\ IF ok
           THEN /\ c2s' = Append(c2s, WCmd(CmdEndTx))
                /\ client' = [client EXCEPT !.pc = "View.encodeEndTxHandle",
                                            !.events = Append(@, CmdEndTx)]
           ELSE /\ c2s' = c2s
                /\ client' = ClientReturn(client, ErrEncode)
        /\ UNCHANGED << svars, s2c, listener, sessions >>

\* ViewResult returning nil whatever f returned.
ViewResultNil(opErr) == NilError

\* View, line 467: return opErr.
ViewResult(opErr) == opErr

\* View, lines 464-467: encoder.Encode(&txHandle), return opErr.
ViewEncodeEndTxHandle ==
    \E ok \in BOOLEAN :
        /\ client.pc = "View.encodeEndTxHandle"
        /\ IF ok
           THEN /\ c2s' = Append(c2s, WUint(client.txHandle))
                /\ client' = [ClientReturn(client, ViewResult(client.opErr)) EXCEPT
                                !.events = Append(@, "EndTx.txHandle")]
           ELSE /\ c2s' = c2s
                /\ client' = ClientReturn(client, ErrEncode)
        /\ UNCHANGED << svars, s2c, listener, sessions >>

\* The caller closes the stream.
ClientClose ==
    /\ client.pc \in {"idle", "failed"} /\ ~client.closed
    /\ client' = [client EXCEPT !.closed = TRUE]
    /\ UNCHANGED << svars, c2s, s2c, listener, sessions >>

\* Server takes the command at the head of the stream of the client, with its
\* arguments, and its reply goes to the stream back.
Serve(c, nargs) ==
    /\ client.peer = "Server"
    /\ Len(c2s) >= 1 + nargs
    /\ Head(c2s) = WCmd(c)
    /\ c2s' = SubSeq(c2s, 2 + nargs, Len(c2s))

ServeVersion ==
    /\ Serve(CmdVersion, 0)
    /\ CaseCmdVersion
    /\ s2c' = s2c \o out'
    /\ UNCHANGED << client, listener, sessions >>

ServeLastError ==
    /\ Serve(CmdLastError, 0)
    /\ CaseCmdLastError
    /\ s2c' = s2c \o out'
    /\ UNCHANGED << client, listener, sessions >>

ServeBeginTx ==
    /\ Serve(CmdBeginTx, 0)
    /\ CaseCmdBeginTx
    /\ lastHandle' <= MaxHandles
    /\ s2c' = s2c \o out'
    /\ UNCHANGED << client, listener, sessions >>

\* Server takes the tag CmdEndTx (line 147) and is in case CmdEndTx, where
\* Decode(&txHandle) (line 188) waits for the client to write the handle.
ServeEndTxTag ==
    /\ Serve(CmdEndTx, 0)
    /\ pc = "loop" /\ ~inEOF
    /\ pc' = "CmdEndTx"
    /\ UNCHANGED << result, inEOF, cmd, lastError, lastHandle, registries, out,
                    deferred, unwound, dbtx, issued >>
    /\ UNCHANGED << client, s2c, listener, sessions >>

\* Decode(&txHandle) gets the handle the client wrote, and the handler runs.
ServeEndTx ==
    /\ client.peer = "Server"
    /\ pc = "CmdEndTx"
    /\ c2s # << >> /\ Head(c2s).t = "uint"
    /\ CmdEndTxFromHandle
    /\ cmd'.decodeErr = "none" /\ cmd'.handle = Head(c2s).u
    /\ c2s' = Tail(c2s)
    /\ s2c' = s2c \o out'
    /\ UNCHANGED << client, listener, sessions >>

\* The stream ends where Server reads the handle of EndTx.
ServeEndTxTruncated ==
    /\ client.peer = "Server" /\ client.closed
    /\ pc = "CmdEndTx"
    /\ c2s = << >>
    /\ CmdEndTxFromHandle
    /\ cmd'.decodeErr = "txHandle" /\ inEOF'
    /\ UNCHANGED << client, c2s, s2c, listener, sessions >>

\* Server, returning, runs one of its deferred calls.
ServeDeferredCall ==
    /\ client.peer = "Server"
    /\ RunDeferredCall
    /\ UNCHANGED envvars

\* The stream ends where Server reads a command.
ServeEOF ==
    /\ client.peer = "Server" /\ client.closed
    /\ c2s = << >>
    /\ AtEOF
    /\ UNCHANGED envvars

\* A peer that is not Server answers the Version command.
OtherPeerVersion ==
    \E reply \in OtherVersionReplies :
        /\ client.peer = "other"
        /\ c2s # << >> /\ Head(c2s) = WCmd(CmdVersion)
        /\ c2s' = Tail(c2s)
        /\ s2c' = Append(s2c, reply)
        /\ UNCHANGED << svars, client, listener, sessions >>

ClientNext ==
    \/ CallNewDB
    \/ NewDBEncode
    \/ NewDBDecode
    \/ CallView
    \/ ViewEncodeBeginTx
    \/ ViewDecodeTxHandle
    \/ ViewEncodeLastError
    \/ ViewDecodeLastError
    \/ ViewCallF
    \/ ViewEncodeEndTx
    \/ ViewEncodeEndTxHandle
    \/ ClientClose
    \/ ServeVersion
    \/ ServeLastError
    \/ ServeBeginTx
    \/ ServeEndTxTag
    \/ ServeEndTx
    \/ ServeEndTxTruncated
    \/ ServeEOF
    \/ ServeDeferredCall
    \/ OtherPeerVersion

ClientSpec == ClientInit /\ [][ClientNext]_vars

-----------------------------------------------------------------------------
(* Listener, lines 369-395, and the sessions it spawns.  Every session is a  *)
(* goroutine running Server with its own local variables; the store is all   *)
(* they share.  The session variables above hold the locals of the session   *)
(* that takes the next step, `sessions` those of the others.                 *)

\* Listener accepts at most this many connections.
MaxConns == 2
\* Two interleaved sessions allocate at most this many handles between them.
MaxSessionHandles == 2

\* The local variables of the running Server that live from one iteration of
\* its loop to the next, lines 133-144, with its place in the loop and its
\* deferred calls.
SessionState ==
    [pc |-> pc, result |-> result, inEOF |-> inEOF,
     lastError |-> lastError, lastHandle |-> lastHandle,
     transactions |-> transactions, buckets |-> buckets, bucketsByTx |-> bucketsByTx,
     cursors |-> cursors, cursorsByBucket |-> cursorsByBucket,
     deferred |-> deferred, unwound |-> unwound, issued |-> issued]

\* The locals of Server when `go Server(db, conn, conn, conn)` starts it.
FreshSession ==
    [pc |-> "loop", result |-> "running", inEOF |-> FALSE,
     lastError |-> NilError, lastHandle |-> 0,
     transactions |-> << >>, buckets |-> << >>, bucketsByTx |-> << >>,
     cursors |-> << >>, cursorsByBucket |-> << >>,
     deferred |-> << [f |-> "closer.Close", tx |-> 0] >>, unwound |-> << >>,
     issued |-> << >>]

\* The place in `sessions` of the session whose locals are in the session variables.
Loaded == [pc |-> "running"]

\* ResumeHandle for a counter the sessions share: a package-level lastHandle.
ResumeHandleShared(st) == lastHandle

\* Line 134, var lastHandle uint64: the counter of a session is its own.
ResumeHandle(st) == st.lastHandle

\* The scheduler lets session i take the next steps: the locals of the session
\* that was running are kept, those of i are the session variables, and i is
\* at the head of its loop, about to read a command, or between two of its
\* deferred calls.  The store stays as it is.
Resume(i) ==
    LET st == sessions.saved[i]
    IN  /\ sessions.running # 0 /\ i # sessions.running
        /\ st.pc \in {"loop", "unwinding"}
        /\ sessions' = [sessions EXCEPT
                          !.running = i,
                          !.saved = [@ EXCEPT ![sessions.running] = SessionState,
                                              ![i] = Loaded]]
        /\ pc' = st.pc
        /\ result' = st.result
        /\ inEOF' = st.inEOF
        /\ cmd' = Command(NoCommand, 0, << >>, 0, "none", FALSE)
        /\ lastError' = st.lastError
        /\ lastHandle' = ResumeHandle(st)
        /\ transactions' = st.transactions
        /\ buckets' = st.buckets
        /\ bucketsByTx' = st.bucketsByTx
        /\ cursors' = st.cursors
        /\ cursorsByBucket' = st.cursorsByBucket
        /\ out' = << >>
        /\ deferred' = st.deferred
        /\ unwound' = st.unwound
        /\ issued' = st.issued
        /\ UNCHANGED << dbtx, client, c2s, s2c, listener >>

Schedule == \E i \in 1..Len(sessions.saved) : Resume(i)

\* The handles the sessions that are not running have allocated, together.
RECURSIVE SumHandles(_)
SumHandles(saved) ==
    IF saved = << >> THEN 0
    ELSE (IF Head(saved) = Loaded THEN 0 ELSE Head(saved).lastHandle)
         + SumHandles(Tail(saved))

\* The commands the clients of the sessions Listener spawns send: well-formed
\* ones, on a working stream, with the first of the keys and counts.
SessionInput(c) ==
    /\ c.decodeErr \in {"none", "command"}
    /\ ~c.encodeErr
    /\ c.arg \in {<< >>, DataName, << 2 >>, << 1, 1 >>}
    /\ c.n <= 1

\* The running session takes a step of Server: an iteration of its loop up to
\* the head of the loop or to a return statement, or one deferred call.  A step
\* calls the store the sessions share at most once to change it (db.Begin,
\* tx.Rollback); the rest of it works on the locals and the connection of the
\* session and reads a store no session writes to, so the steps of the other
\* sessions commute with it.
SessionStep(step) ==
    /\ sessions.running # 0
    /\ step
    /\ SessionInput(cmd')
    /\ SumHandles(sessions.saved) + lastHandle' <= MaxSessionHandles
    /\ UNCHANGED envvars

ListenerInit ==
    /\ ServerInit
    /\ client = NoClient
    /\ c2s = << >>
    /\ s2c = << >>
    /\ \E ch \in {"nil", "open"} :
        listener = [pc |-> "Listen", interruptCh |-> ch, accepted |-> 0,
                    received |-> 0]
    /\ sessions = NoSessions

\* Line 370-375: net.Listen; with an error Listener logs and returns.
ListenerListen ==
    \E ok \in BOOLEAN :
        /\ listener.pc = "Listen"
        /\ listener' = [listener EXCEPT !.pc = IF ok THEN "Accept" ELSE "returned"]
        /\ UNCHANGED << svars, client, c2s, s2c, sessions >>

\* Lines 377-381: ln.Accept; with an error Listener logs and accepts again.
ListenerAccept ==
    \E ok \in BOOLEAN :
        /\ listener.pc = "Accept"
        /\ ok => listener.accepted < MaxConns
        /\ listener' = IF ok THEN [listener EXCEPT !.pc = "go", !.accepted = @ + 1]
                       ELSE listener
        /\ UNCHANGED << svars, client, c2s, s2c, sessions >>

\* Line 382: go Server(db, conn, conn, conn).
ListenerGo ==
    /\ listener.pc = "go"
    /\ listener' = [listener EXCEPT !.pc = "select"]
    /\ sessions' = [running |-> IF sessions.running = 0 THEN 1 ELSE sessions.running,
                    saved |-> Append(sessions.saved,
                                     IF sessions.running = 0 THEN Loaded
                                     ELSE FreshSession)]
    /\ UNCHANGED << svars, client, c2s, s2c >>

\* Lines 385-387: where Listener goes on after case <-interruptCh.  The break
\* ends the select statement, and the for loop goes on: no path leads to the
\* ln.Close of line 392, and Listener returns only when net.Listen fails.
ListenerAfterInterrupt == "Accept"

\* Lines 383-390: the select on interruptCh, with its default.
ListenerSelect ==
    /\ listener.pc = "select"
    /\ \/ /\ listener.interruptCh \in {"closed", "sending"}
          /\ listener' = [listener EXCEPT
                            !.pc = ListenerAfterInterrupt,
                            !.received = @ + 1,
                            !.interruptCh = IF @ = "sending" THEN "open" ELSE @]
       \/ /\ listener.interruptCh \in {"nil", "open"}
          /\ listener' = [listener EXCEPT !.pc = "Accept"]
    /\ UNCHANGED << svars, client, c2s, s2c, sessions >>

\* The owner of interruptCh signals: it closes the channel, or sends on it.
Interrupt ==
    \E how \in {"closed", "sending"} :
        /\ listener.interruptCh = "open"
        /\ listener' = [listener EXCEPT !.interruptCh = how]
        /\ UNCHANGED << svars, client, c2s, s2c, sessions >>

\* The sessions Listener has spawned run until their streams end.
ListenerNext ==
    \/ ListenerListen
    \/ ListenerAccept
    \/ ListenerGo
    \/ ListenerSelect
    \/ Interrupt
    \/ Schedule
    \/ SessionStep(AtEOF)
    \/ SessionStep(CaseCmdVersion)
    \/ SessionStep(RunDeferredCall)

ListenerSpec == ListenerInit /\ [][ListenerNext]_vars

\* Two sessions Listener has spawned, lines 376-382, with their clients, which
\* begin and end transactions, open buckets and cursors and read values.
SessionsInit ==
    /\ ServerInit
    /\ client = NoClient
    /\ c2s = << >>
    /\ s2c = << >>
    /\ listener = NoListener
    /\ sessions = [running |-> 1, saved |-> << Loaded, FreshSession >>]

SessionsNext ==
    \/ Schedule
    \/ SessionStep(AtEOF)
    \/ SessionStep(CaseCmdLastError)
    \/ SessionStep(CaseCmdBeginTx)
    \/ SessionStep(CaseCmdEndTx)
    \/ SessionStep(CaseCmdBucket)
    \/ SessionStep(CaseCmdCursor)
    \/ SessionStep(RunDeferredCall)

SessionsSpec == SessionsInit /\ [][SessionsNext]_vars

-----------------------------------------------------------------------------
(* One session given well-formed commands on a working stream, with room for *)
(* one handle more: two transactions, a bucket and a cursor that Seek moves. *)

\* The commands of such a client: every argument decoded, every reply encoded.
FrameInput(c) ==
    /\ c.decodeErr = "none"
    /\ ~c.encodeErr
    /\ c.arg \in {<< >>, DataName, << 2, 2 >>}
    /\ c.n <= 1

FrameStep(step) ==
    /\ step
    /\ FrameInput(cmd')
    /\ UNCHANGED envvars

FrameNext ==
    \/ FrameStep(CaseCmdBeginTx)
    \/ FrameStep(CaseCmdEndTx)
    \/ FrameStep(CaseCmdBucket)
    \/ FrameStep(CaseCmdCursor)
    \/ FrameStep(CaseCmdSeek)
    \/ FrameStep(RunDeferredCall)

FrameSpec == Init /\ [][FrameNext]_vars

-----------------------------------------------------------------------------
(* Notions the properties below share. *)

\* The handler of the command read last ran to its end: its arguments were
\* decoded and its reply encoded.  (CmdNext goes on after a failed decode of
\* numberOfKeys.)
HandlerRan(c) ==
    /\ c.c \notin {NoCommand, CmdUnknown}
    /\ c.decodeErr = "none" \/ (c.c = CmdNext /\ c.decodeErr = "numberOfKeys")
Completed(c) == HandlerRan(c) /\ ~c.encodeErr
\* Server has executed a return statement: its result is fixed, and it reads no
\* further command.
Ended == pc \in {"unwinding", "returned"}

\* The transactions EndTx has ended, and the buckets and cursors created under
\* them, by the handles they were created with.
EndedTxs ==
    {t \in DOMAIN issued : issued[t].kind = "tx" /\ t \notin DOMAIN transactions}
BucketsOfEndedTxs ==
    {b \in DOMAIN issued : issued[b].kind = "bucket" /\ issued[b].parent \in EndedTxs}
CursorsOfEndedTxs ==
    {c \in DOMAIN issued : issued[c].kind = "cursor" /\ issued[c].parent \in BucketsOfEndedTxs}

Types(vals) == [i \in 1..Len(vals) |-> WireType(vals[i])]

-----------------------------------------------------------------------------
\* What every step of Server has to satisfy for C1.
C1_Step ==
    /\ (HandlerRan(cmd') /\ cmd'.c \in {CmdGet, CmdCursor}
            /\ cmd'.handle \in BucketsOfEndedTxs)
        => /\ lastError' = ErrBucketNotFound
           /\ ~cmd'.encodeErr =>
                out' = IF cmd'.c = CmdGet THEN << WNil >> ELSE << WUint(0) >>
    /\ (HandlerRan(cmd') /\ cmd'.c \in {CmdSeek, CmdNext}
            /\ cmd'.handle \in CursorsOfEndedTxs)
        => /\ lastError' = ErrCursorNotFound
           /\ ~cmd'.encodeErr =>
                out' = IF cmd'.c = CmdSeek THEN << WNil, WNil >> ELSE << >>
(* C1: once EndTx(t) has been processed, every later Get and Cursor on a     *)
(* bucket handle created on t sets lastError to "bucket not found" and every *)
(* later Seek and Next on a cursor handle created on such a bucket sets it   *)
(* to "cursor not found"; the reply is the placeholder (nil, 0, two nils,    *)
(* nothing).                                                                 *)
C1_AfterEndTxNotFound == [][C1_Step]_vars

\* A Seek on the cursor of an ended transaction has been answered.
C1_Witness ==
    /\ pc = "loop"
    /\ cmd.c = CmdSeek
    /\ cmd.handle \in CursorsOfEndedTxs
    /\ lastError = ErrCursorNotFound
    /\ out = << WNil, WNil >>

-----------------------------------------------------------------------------
\* The registries hold handles the counter has issued, each in one registry.
C2_Registered ==
    /\ DOMAIN transactions \cap DOMAIN buckets = {}
    /\ DOMAIN transactions \cap DOMAIN cursors = {}
    /\ DOMAIN buckets \cap DOMAIN cursors = {}
    /\ (DOMAIN transactions \cup DOMAIN buckets \cup DOMAIN cursors) \subseteq 1..lastHandle
    /\ DOMAIN issued = 1..lastHandle
\* What every step of Server has to satisfy for C2.
C2_Step ==
    (Completed(cmd') /\ cmd'.c \in {CmdBeginTx, CmdBucket, CmdCursor})
        => LET x == out'[1].u
               reg == IF cmd'.c = CmdBeginTx THEN transactions
                      ELSE IF cmd'.c = CmdBucket THEN buckets ELSE cursors
               reg2 == IF cmd'.c = CmdBeginTx THEN transactions'
                       ELSE IF cmd'.c = CmdBucket THEN buckets' ELSE cursors'
           IN  /\ Len(out') = 1
               /\ x # 0 => /\ x = lastHandle + 1
                           /\ \A h \in DOMAIN issued : h < x
                           /\ lastHandle' = x
                           /\ DOMAIN reg2 = DOMAIN reg \cup {x}
               /\ x = 0 => reg2 = reg
               /\ reg2 # reg => x # 0
(* C2: the non-zero handles replied by BeginTx, Bucket and Cursor are the    *)
(* counter's next value, above every handle replied before, the first one    *)
(* being 1; a reply of 0 allocates nothing; and no handle is registered in   *)
(* two of the three registries, 0 in none.                                   *)
C2_HandlesIncrease == [] C2_Registered /\ [][C2_Step]_vars

\* A transaction, a bucket and a cursor are registered, with handles 1, 2, 3.
C2_Witness ==
    /\ DOMAIN transactions = {1}
    /\ DOMAIN buckets = {2}
    /\ DOMAIN cursors = {3}
    /\ cmd.c = CmdCursor
    /\ out = << WUint(3) >>

-----------------------------------------------------------------------------
\* The shapes of the replies of the success paths.
NextStreamShape(vals, n) ==
    /\ Len(vals) % 2 = 0
    /\ \A i \in 1..Len(vals) : WireType(vals[i]) = "bytes?"
    /\ n > 0 => /\ Len(vals) > 0
                /\ Len(vals) = 2 * n \/ vals[Len(vals) - 1] = WNil
SuccessShape(c, vals) ==
    IF c.c \in {CmdBeginTx, CmdBucket, CmdCursor} THEN Types(vals) = << "uint" >>
    ELSE IF c.c = CmdGet THEN Types(vals) = << "bytes?" >>
    ELSE IF c.c = CmdSeek THEN Types(vals) = << "bytes?", "bytes?" >>
    ELSE IF c.c = CmdNext THEN NextStreamShape(vals, c.n)
    ELSE TRUE
(* C3: a command that fails its lookup writes a reply of the shape of its    *)
(* success path: one uint for BeginTx, Bucket and Cursor, one byte string    *)
(* (or nil) for Get, two for Seek, and for Next with n > 0 a stream of pairs *)
(* a reader can end: n pairs, or fewer ending with a nil key.                *)
C3_FailureHasSuccessShape ==
    (pc = "loop" /\ Completed(cmd) /\ cmd.decodeErr = "none" /\ lastError # NilError
        /\ cmd.c \in {CmdBeginTx, CmdBucket, CmdGet, CmdCursor, CmdSeek, CmdNext})
        => SuccessShape(cmd, out)

-----------------------------------------------------------------------------
\* The positions of the calls of Close and of Rollback among the deferred calls run.
CloseCalls == {i \in 1..Len(unwound) : unwound[i].f = "closer.Close"}
RollbackCalls(tx) ==
    {i \in 1..Len(unwound) : unwound[i].f = "tx.Rollback" /\ unwound[i].tx = tx}
(* C4: when Server has returned, by whatever path, Rollback has been called  *)
(* on every transaction begun and not ended, and closer.Close has been       *)
(* called exactly once, after all those calls.                               *)
C4_CleanupOnReturn ==
    /\ pc = "loop" => unwound = << >> /\ result = "running"
    /\ pc = "returned" =>
        /\ result # "running"
        /\ Cardinality(CloseCalls) = 1
        /\ \A h \in DOMAIN transactions :
              /\ RollbackCalls(transactions[h]) # {}
              /\ dbtx[transactions[h]] >= 1
              /\ \A i \in RollbackCalls(transactions[h]), j \in CloseCalls : i < j

\* Server has returned on a decode error with two transactions still open.
C4_Witness ==
    /\ pc = "returned"
    /\ result = "decode error"
    /\ Cardinality(DOMAIN transactions) = 2

-----------------------------------------------------------------------------
(* C5: a decode error on an argument of a command ends the session: Server   *)
(* returns that error and reads no further command.                          *)
C5_ArgumentDecodeErrorIsFatal ==
    (cmd.c # NoCommand /\ cmd.decodeErr # "none")
        => Ended /\ result = "decode error"

-----------------------------------------------------------------------------
\* The outcome of command c in the state it is read in: its error, or success.
Outcome(c) ==
    IF c.c \in {CmdEndTx, CmdBucket} /\ c.handle \notin DOMAIN transactions
    THEN ErrTxNotFound
    ELSE IF c.c = CmdBucket /\ c.arg \notin DOMAIN Store THEN ErrBucketNotFound
    ELSE IF c.c \in {CmdGet, CmdCursor} /\ c.handle \notin DOMAIN buckets
    THEN ErrBucketNotFound
    ELSE IF c.c \in {CmdSeek, CmdNext} /\ c.handle \notin DOMAIN cursors
    THEN ErrCursorNotFound
    ELSE NilError
\* What every step of Server has to satisfy for C6.
C6_Step ==
    /\ cmd'.c \in {CmdVersion, CmdLastError} => lastError' = lastError
    /\ (cmd'.c = CmdLastError /\ ~cmd'.encodeErr)
        => out' = << WString(IF lastError = NilError THEN "<nil>" ELSE lastError) >>
    /\ (HandlerRan(cmd') /\ pc' = "loop"
            /\ cmd'.c \in {CmdEndTx, CmdBucket, CmdGet, CmdCursor, CmdSeek, CmdNext})
        => lastError' = Outcome(cmd')
    /\ (cmd'.c = CmdBeginTx /\ pc' = "loop")
        => lastError' = IF out'[1].u # 0 THEN NilError ELSE ErrBegin
(* C6: LastError replies the text of lastError, which is the outcome of the  *)
(* last command other than Version and LastError: every such command that    *)
(* leaves the session running stores its own outcome (success, or its        *)
(* error), and Version and LastError leave lastError as it is.               *)
C6_LastErrorIsLastOutcome == [][C6_Step]_vars

\* LastError has been answered with the error of a failed lookup.
C6_Witness ==
    /\ pc = "loop"
    /\ cmd.c = CmdLastError
    /\ out = << WString(ErrBucketNotFound) >>
    /\ DOMAIN buckets # {}

-----------------------------------------------------------------------------
\* What every step of Server has to satisfy for C7.
C7_Step ==
    HandlerRan(cmd') =>
        /\ (cmd'.c \in {CmdEndTx, CmdBucket} /\ cmd'.handle \notin DOMAIN transactions)
            => lastError' = ErrTxNotFound /\ UNCHANGED << registries, lastHandle >>
        /\ (cmd'.c \in {CmdGet, CmdCursor} /\ cmd'.handle \notin DOMAIN buckets)
            => lastError' = ErrBucketNotFound /\ UNCHANGED << registries, lastHandle >>
        /\ (cmd'.c \in {CmdSeek, CmdNext} /\ cmd'.handle \notin DOMAIN cursors)
            => lastError' = ErrCursorNotFound /\ UNCHANGED << registries, lastHandle >>
        /\ (cmd'.c = CmdBucket /\ cmd'.handle \in DOMAIN transactions
                /\ cmd'.arg \notin DOMAIN Store)
            => /\ lastError' = ErrBucketNotFound
               /\ UNCHANGED << registries, lastHandle >>
               /\ ~cmd'.encodeErr => out' = << WUint(0) >>
(* C7: a command on a handle that is not registered for its kind stores the  *)
(* matching error and changes no registry and not the counter; Bucket on a   *)
(* registered transaction with a name the store does not have replies 0,     *)
(* stores "bucket not found" and registers nothing.                          *)
C7_UnknownHandleChangesNothing == [][C7_Step]_vars

\* Bucket has been answered for a registered transaction and a missing name.
C7_Witness ==
    /\ pc = "loop"
    /\ cmd.c = CmdBucket
    /\ cmd.handle \in DOMAIN transactions
    /\ cmd.arg = AbsentName
    /\ lastError = ErrBucketNotFound
    /\ out = << WUint(0) >>

-----------------------------------------------------------------------------
\* The step handles command c, which meets an application error and no codec error.
ApplicationError(c) ==
    /\ Completed(c) /\ c.decodeErr = "none"
    /\ \/ c.c \in {CmdEndTx, CmdBucket, CmdGet, CmdCursor, CmdSeek, CmdNext}
            /\ Outcome(c) # NilError
       \/ c.c = CmdBeginTx /\ lastError' = ErrBegin
\* What every step of Server has to satisfy for C8.
C8_Step ==
    ApplicationError(cmd') =>
        /\ pc' = "loop" /\ result' = "running" /\ ~inEOF'
        /\ UNCHANGED << deferred, unwound, dbtx >>
        /\ cmd'.c = CmdGet => out' = << WNil >>
(* C8: a command that meets an application error (an unknown handle, a       *)
(* missing bucket, a failed Begin) and no codec error leaves the session     *)
(* running: Server is back at the head of its loop, nothing was deferred or  *)
(* rolled back, and Get on an unknown bucket has written exactly one nil.    *)
C8_ApplicationErrorsNotFatal == [][C8_Step]_vars

\* Get on an unknown bucket handle has been answered and the loop goes on.
C8_Witness ==
    /\ pc = "loop" /\ ~inEOF
    /\ cmd.c = CmdGet
    /\ cmd.handle \notin DOMAIN buckets
    /\ lastError = ErrBucketNotFound
    /\ out = << WNil >>

-----------------------------------------------------------------------------
\* The number of values of the reply to c in the wire table.
WireCount(c) ==
    IF c.c \in {CmdVersion, CmdLastError, CmdBeginTx, CmdBucket, CmdGet, CmdCursor} THEN 1
    ELSE IF c.c = CmdSeek THEN 2
    ELSE IF c.c = CmdNext THEN 2 * c.n
    ELSE 0
(* C9: what Server writes between two reads of a command tag is the reply of *)
(* the command read, with the value counts and types of the wire table: one  *)
(* value for Version, LastError, BeginTx, Bucket, Get and Cursor, two for    *)
(* Seek, none for EndTx, at most n pairs for Next; nothing is written for an *)
(* unknown tag or undecoded arguments, and a reply is cut short only by a    *)
(* failed Encode, which ends the session.                                    *)
C9_WireTable ==
    /\ ~HandlerRan(cmd) => out = << >>
    /\ Len(out) <= WireCount(cmd)
    /\ cmd.encodeErr => Len(out) < WireCount(cmd) /\ Ended
    /\ Completed(cmd) =>
        /\ cmd.c = CmdVersion => out = << WUint(Version) >>
        /\ cmd.c = CmdLastError => Types(out) = << "string" >>
        /\ cmd.c \in {CmdBeginTx, CmdBucket, CmdCursor} => Types(out) = << "uint" >>
        /\ cmd.c = CmdGet => Types(out) = << "bytes?" >>
        /\ cmd.c = CmdSeek => Types(out) = << "bytes?", "bytes?" >>
        /\ cmd.c = CmdEndTx => out = << >>
        /\ cmd.c = CmdNext =>
              /\ Len(out) % 2 = 0
              /\ \A i \in 1..Len(out) : WireType(out[i]) = "bytes?"

\* Next with n = 2 has written two pairs.
C9_Witness ==
    /\ pc = "loop"
    /\ cmd.c = CmdNext /\ cmd.n = 2
    /\ Len(out) = 4
    /\ out[3] # WNil

-----------------------------------------------------------------------------
\* The number of pairs after the position of a cursor.
Remaining(cur) ==
    IF cur.pos \in 1..Len(Store[cur.bucket]) THEN Len(Store[cur.bucket]) - cur.pos ELSE 0
\* What every step of Server has to satisfy for C10.
C10_Step ==
    (Completed(cmd') /\ cmd'.c = CmdNext /\ cmd'.decodeErr = "none"
        /\ cmd'.handle \in DOMAIN cursors /\ cursors[cmd'.handle].pos >= 1)
    => LET cur == cursors[cmd'.handle]
           ps == Store[cur.bucket]
           r == Remaining(cur)
           n == cmd'.n
           m == Min(n, r)
       IN  /\ Len(out') = 2 * Min(n, r + 1)
           /\ \A j \in 1..m : /\ out'[2 * j - 1] = WBytes(ps[cur.pos + j].k)
                              /\ out'[2 * j] = WBytes(ps[cur.pos + j].v)
           /\ \A j \in 1..(m - 1) : BytesLess(out'[2 * j - 1].b, out'[2 * j + 1].b)
           /\ r < n <=> (Len(out') = 2 * m + 2 /\ out'[2 * m + 1] = WNil
                            /\ out'[2 * m + 2] = WNil)
           /\ \A i \in 1..Len(out') : (i % 2 = 1 /\ out'[i] = WNil) => i = Len(out') - 1
           /\ lastError' = NilError
(* C10: Next(c, n) on a known cursor standing on a pair, or behind the last, *)
(* with r pairs after its position, writes min(n, r+1) pairs: the next       *)
(* min(n, r) pairs of the bucket in ascending key order, then one (nil, nil) *)
(* exactly when r < n; a nil key is only in the last pair, and lastError is  *)
(* success afterwards.                                                       *)
C10_NextEmitsPairs == [][C10_Step]_vars

\* Next with n = 2 and one pair left has written that pair and the terminator.
C10_Witness ==
    /\ pc = "loop"
    /\ cmd.c = CmdNext /\ cmd.n = 2
    /\ Len(out) = 4
    /\ out[1] # WNil /\ out[3] = WNil /\ out[4] = WNil
    /\ lastError = NilError

-----------------------------------------------------------------------------
\* The positions of handle h in the lists of the reverse index idx, as pairs of
\* the parent and the place in its list.
Places(idx, h) ==
    {<< p, k >> \in UNION {{<< q, j >> : j \in 1..Len(idx[q])} : q \in DOMAIN idx} :
        idx[p][k] = h}
(* C16: every registered bucket handle is in the bucketsByTx list of exactly *)
(* one transaction handle, once, and that one is registered; every           *)
(* registered cursor handle is in the cursorsByBucket list of exactly one    *)
(* bucket handle, once, and that one is registered; and the two indices hold *)
(* no handle that is not registered, as key or in a list.                    *)
C16_OwnershipIndices ==
    /\ \A b \in DOMAIN buckets :
          /\ Cardinality(Places(bucketsByTx, b)) = 1
          /\ \A pl \in Places(bucketsByTx, b) :
                pl[1] \in DOMAIN transactions /\ pl[1] = issued[b].parent
    /\ \A c \in DOMAIN cursors :
          /\ Cardinality(Places(cursorsByBucket, c)) = 1
          /\ \A pl \in Places(cursorsByBucket, c) :
                pl[1] \in DOMAIN buckets /\ pl[1] = issued[c].parent
    /\ DOMAIN bucketsByTx \subseteq DOMAIN transactions
    /\ \A t \in DOMAIN bucketsByTx : Range(bucketsByTx[t]) \subseteq DOMAIN buckets
    /\ DOMAIN cursorsByBucket \subseteq DOMAIN buckets
    /\ \A b \in DOMAIN cursorsByBucket : Range(cursorsByBucket[b]) \subseteq DOMAIN cursors

\* EndTx has ended a transaction with a bucket while another transaction
\* stays registered.
C16_Witness ==
    /\ pc = "loop"
    /\ cmd.c = CmdEndTx /\ cmd.handle \in EndedTxs
    /\ BucketsOfEndedTxs # {}
    /\ transactions # << >>

-----------------------------------------------------------------------------
\* The buckets and cursors created under transaction handle t, by their handles.
BucketsOf(t) == {b \in DOMAIN issued : issued[b].kind = "bucket" /\ issued[b].parent = t}
CursorsOf(t) ==
    {c \in DOMAIN issued : issued[c].kind = "cursor" /\ issued[c].parent \in BucketsOf(t)}
\* What every step of Server has to satisfy for C17.  Between the call of
\* Rollback and the end of the step only transactions and lastError change, so
\* the other registries after the step are those at the call.
C17_Step ==
    (/\ pc = "loop"
     /\ cmd'.c = CmdEndTx /\ cmd'.decodeErr = "none" /\ cmd'.handle \in DOMAIN transactions)
    => LET t == cmd'.handle
           tx == transactions[t]
       IN  /\ DOMAIN buckets' \cap BucketsOf(t) = {}
           /\ DOMAIN cursors' \cap CursorsOf(t) = {}
           /\ t \notin DOMAIN bucketsByTx'
           /\ DOMAIN cursorsByBucket' \cap BucketsOf(t) = {}
           /\ dbtx'[tx] >= dbtx[tx] + 1
           /\ \/ /\ pc' = "loop" /\ result' = "running"
                 /\ dbtx'[tx] = dbtx[tx] + 1
                 /\ t \notin DOMAIN transactions'
                 /\ DOMAIN transactions' = DOMAIN transactions \ {t}
                 /\ lastError' = NilError
              \/ /\ pc' = "unwinding" /\ result' = "rollback error"
                 /\ dbtx'[tx] = dbtx[tx] + 1
                 /\ deferred' = deferred /\ deferred # << >>
                 /\ lastError' = lastError
(* C17: EndTx(t) on a registered transaction leaves no bucket and no cursor  *)
(* created under t in the registries at the moment it calls Rollback on t;   *)
(* if the Rollback succeeds, t leaves the transaction registry and lastError *)
(* is success; if it fails, Server returns the error after its deferred      *)
(* calls have run.                                                           *)
C17_EndTxCascadeThenRollback ==
    /\ [] (pc = "unwinding" => deferred # << >>)
    /\ [] (pc = "returned" =>
            /\ deferred = << >>
            /\ unwound # << >> /\ unwound[Len(unwound)].f = "closer.Close")
    /\ [][C17_Step]_vars
    /\ [][Ended => (Ended' /\ result' = result /\ UNCHANGED registries
                     /\ unwound' \o RunDeferred(deferred') = unwound \o RunDeferred(deferred))]_vars

\* The Rollback of EndTx has failed on a transaction that had a bucket, and
\* Server has returned.
C17_Witness ==
    /\ pc = "returned" /\ result = "rollback error"
    /\ cmd.c = CmdEndTx
    /\ cmd.handle \in DOMAIN transactions
    /\ BucketsOf(cmd.handle) # {}
    /\ buckets = << >>

-----------------------------------------------------------------------------
(* C18: the result of Server is fixed by where its input ends: it has        *)
(* returned nil exactly when the read of a command tag met the end of the    *)
(* input; an unknown tag, a failed decode of an argument and a failed Encode *)
(* of a reply each make it return an error, and after an unknown tag nothing *)
(* is written.                                                               *)
C18_ResultByEndOfInput ==
    /\ Ended => result # "running"
    /\ (Ended /\ result = "nil") <=> (cmd.c = NoCommand /\ inEOF)
    /\ cmd.c = CmdUnknown =>
          Ended /\ result = "unknown command" /\ out = << >>
    /\ (cmd.decodeErr \notin {"none", "command"} \/ cmd.encodeErr) =>
          Ended /\ result \notin {"nil", "running"}

-----------------------------------------------------------------------------
\* The pairs of ps (in key order) with a key >= k, and pairs as wire values.
FromKey(ps, k) == SelectSeq(ps, LAMBDA p : ~BytesLess(p.k, k))
RECURSIVE Wire(_)
Wire(ps) ==
    IF ps = << >> THEN << >>
    ELSE << WBytes(Head(ps).k), WBytes(Head(ps).v) >> \o Wire(Tail(ps))
\* What Seek(k) and then Next(m) write on a cursor of a bucket holding ps: the
\* first min(m + 1, .) pairs from k on, a (nil, nil) for the Seek that finds
\* nothing and one for the Next that runs out of pairs.
SeekThenNext(ps, k, m) ==
    LET s == FromKey(ps, k)
        NilPair == << WNil, WNil >>
    IN  IF s = << >>
        THEN NilPair \o (IF m > 0 THEN NilPair ELSE << >>)
        ELSE Wire(SubSeq(s, 1, Min(m + 1, Len(s))))
                \o (IF m > Len(s) - 1 THEN NilPair ELSE << >>)
\* What every step of Server has to satisfy for C19: cmd and out are the Seek
\* answered last and its reply, cmd' and out' the Next that follows it.
C19_Step ==
    (/\ pc = "loop" /\ Completed(cmd) /\ cmd.c = CmdSeek
     /\ cmd.handle \in DOMAIN cursors
     /\ Completed(cmd') /\ cmd'.c = CmdNext /\ cmd'.decodeErr = "none"
     /\ cmd'.handle = cmd.handle)
    => out \o out' = SeekThenNext(Store[cursors[cmd.handle].bucket], cmd.arg, cmd'.n)
(* C19: Seek(c, k) followed by Next(c, m) writes the pairs that k, m and the *)
(* contents of the bucket of c determine, the same on a cursor that has been *)
(* moved by earlier Seek and Next calls as on one just created.              *)
C19_SeekForgetsPosition == [][C19_Step]_vars

\* Next with n = 2 has written the second and third pair of the bucket: it
\* followed a Seek that stood on the first.
C19_Witness ==
    /\ pc = "loop"
    /\ Completed(cmd) /\ cmd.c = CmdNext /\ cmd.n = 2
    /\ cmd.handle \in DOMAIN cursors
    /\ Len(out) = 4
    /\ out[1] = WBytes(Store[cursors[cmd.handle].bucket][2].k)
    /\ out[3] = WBytes(Store[cursors[cmd.handle].bucket][3].k)

-----------------------------------------------------------------------------
\* What every step of Server has to satisfy for C20.
C20_Step ==
    (Completed(cmd') /\ cmd'.c = CmdSeek /\ cmd'.handle \in DOMAIN cursors)
    => LET h == cmd'.handle
           ps == Store[cursors[h].bucket]
           k == cmd'.arg
           ge == {i \in 1..Len(ps) : ~BytesLess(ps[i].k, k)}
       IN  /\ Len(out') = 2
           /\ ge = {} => out' = << WNil, WNil >>
           /\ ge # {} =>
                 \E i \in ge :
                    /\ \A j \in ge \ {i} : BytesLess(ps[i].k, ps[j].k)
                    /\ out' = << WBytes(ps[i].k), WBytes(ps[i].v) >>
           /\ lastError' = NilError
           /\ h \in DOMAIN cursors'
           /\ pc' = "loop"
           \* the Seek before this one, on the same cursor, found nothing
           /\ (/\ pc = "loop" /\ Completed(cmd) /\ cmd.c = CmdSeek /\ cmd.handle = h
               /\ out = << WNil, WNil >> /\ ge # {})
              => out'[1] # WNil /\ out' = SeekThenNext(ps, k, 0)
(* C20: Seek(c, k) on a known cursor replies the pair of the smallest key    *)
(* >= k of the bucket, or (nil, nil) when the bucket has no such key, and    *)
(* sets lastError to success either way; the cursor stays registered, and a  *)
(* Seek after one that found nothing finds the key its own argument has.     *)
C20_SeekSmallestKeyAtLeast == [][C20_Step]_vars

\* A Seek has found nothing and replied (nil, nil) with lastError success; its
\* cursor is registered, and a Seek on it that finds a pair is the next step.
C20_Witness ==
    /\ pc = "loop" /\ Completed(cmd) /\ cmd.c = CmdSeek
    /\ cmd.handle \in DOMAIN cursors
    /\ out = << WNil, WNil >>
    /\ lastError = NilError
    /\ ENABLED (/\ CaseCmdSeek /\ cmd'.handle = cmd.handle /\ Completed(cmd')
                /\ out'[1] # WNil)

-----------------------------------------------------------------------------
\* What every step of Server has to satisfy for C21.
C21_Step ==
    (/\ Completed(cmd') /\ cmd'.c = CmdNext /\ cmd'.decodeErr = "none"
     /\ cmd'.n = 0 /\ cmd'.handle \in DOMAIN cursors)
    => LET h == cmd'.handle
       IN  /\ out' = << >>
           /\ cursors'[h].pos = cursors[h].pos
           /\ NextLoop(cursors'[h], 1, << >>, 0).out = NextLoop(cursors[h], 1, << >>, 0).out
           /\ UNCHANGED << registries, lastHandle, issued, dbtx, deferred >>
           /\ lastError' = NilError
           /\ pc' = "loop"
(* C21: Next(c, 0) on a known cursor writes nothing, leaves the cursor where *)
(* it stands, so that a Next(c, 1) after it writes the pair it would have    *)
(* written without it, changes no registry and sets lastError to success.    *)
C21_NextZeroIsNoMove == [][C21_Step]_vars

\* Next(c, 0) has been answered on a cursor standing on the first pair of a
\* bucket that has more pairs.
C21_Witness ==
    /\ pc = "loop" /\ Completed(cmd)
    /\ cmd.c = CmdNext /\ cmd.decodeErr = "none" /\ cmd.n = 0
    /\ cmd.handle \in DOMAIN cursors
    /\ cursors[cmd.handle].pos = 1
    /\ out = << >>
    /\ lastError = NilError

-----------------------------------------------------------------------------
(* C22: over the life of a session, cleanup included, Rollback is called     *)
(* once on each transaction begun: never twice, and once when Server has     *)
(* returned.                                                                 *)
C22_RollbackExactlyOnce ==
    \A tx \in DOMAIN dbtx :
        /\ dbtx[tx] <= 1
        /\ pc = "returned" => dbtx[tx] = 1

-----------------------------------------------------------------------------
\* The step reads a command that allocates a handle: its arguments are decoded,
\* the store begins the transaction, or the parent and the name are found.
Allocates ==
    /\ pc = "loop"
    /\ HandlerRan(cmd') /\ cmd'.c \in {CmdBeginTx, CmdBucket, CmdCursor}
    /\ cmd'.c = CmdBeginTx => lastError' = NilError
    /\ cmd'.c # CmdBeginTx => Outcome(cmd') = NilError
\* What every step of Server has to satisfy for C23.
C23_Step ==
    /\ lastHandle' = lastHandle + (IF Allocates THEN 1 ELSE 0)
    /\ Allocates =>
          /\ lastHandle' \in
                (DOMAIN transactions' \cup DOMAIN buckets' \cup DOMAIN cursors')
                \ (DOMAIN transactions \cup DOMAIN buckets \cup DOMAIN cursors)
          /\ Completed(cmd') => out' = << WUint(lastHandle + 1) >>
    /\ (/\ ~Allocates /\ pc = "loop"
        /\ Completed(cmd') /\ cmd'.c \in {CmdBeginTx, CmdBucket, CmdCursor}) =>
          /\ out' = << WUint(0) >>
          /\ lastError' # NilError
          /\ UNCHANGED << registries, issued >>
(* C23: the handle counter advances by one with every allocation that        *)
(* succeeds and with nothing else, so the handles issued are 1, 2, 3, ...    *)
(* without a gap and lastHandle is their number; BeginTx failing in the      *)
(* store, Bucket on an unknown transaction or name and Cursor on an unknown  *)
(* bucket reply 0 and leave the counter as it was.                           *)
C23_CounterCountsAllocations ==
    [] (DOMAIN issued = 1..lastHandle /\ Cardinality(DOMAIN issued) = lastHandle)
    /\ [][C23_Step]_vars

\* Cursor on a handle that is no bucket has replied 0 in a session that has
\* issued the handles 1 and 2.
C23_Witness ==
    /\ pc = "loop" /\ Completed(cmd) /\ cmd.c = CmdCursor
    /\ out = << WUint(0) >>
    /\ lastError = ErrBucketNotFound
    /\ lastHandle = 2
    /\ DOMAIN transactions = {1} /\ DOMAIN buckets = {2}

-----------------------------------------------------------------------------
\* Registry reg2 holds everything reg holds under the handles outside `gone`,
\* and no handle reg does not hold.
Kept(reg, reg2, gone) ==
    /\ DOMAIN reg2 \subseteq DOMAIN reg
    /\ \A h \in DOMAIN reg \ gone : h \in DOMAIN reg2 /\ reg2[h] = reg[h]
\* What every step of Server has to satisfy for C24.
C24_Step ==
    (cmd'.c = CmdEndTx /\ cmd'.decodeErr = "none")
    => LET t == cmd'.handle
       IN  /\ lastHandle' = lastHandle
           /\ issued' = issued
           /\ Kept(transactions, transactions', {t})
           /\ Kept(buckets, buckets', BucketsOf(t))
           /\ Kept(cursors, cursors', CursorsOf(t))
           /\ Kept(bucketsByTx, bucketsByTx', {t})
           /\ Kept(cursorsByBucket, cursorsByBucket', BucketsOf(t))
           /\ pc' = "loop" =>
                 \A tx \in DOMAIN dbtx :
                    (t \notin DOMAIN transactions \/ tx # transactions[t])
                        => dbtx'[tx] = dbtx[tx]
           /\ t \notin DOMAIN transactions => UNCHANGED registries
(* C24: EndTx(t) touches t and what was created under t, and nothing else:   *)
(* every other transaction, every bucket of another transaction and every    *)
(* cursor of such a bucket stays registered under its handle, the cursor     *)
(* where it stands, and the handle counter stays as it was.                  *)
C24_EndTxFrame == [][C24_Step]_vars

\* EndTx has ended a transaction while a cursor of another transaction stands
\* on a pair; the cursor, its bucket and its transaction are registered.
C24_Witness ==
    /\ pc = "loop" /\ cmd.c = CmdEndTx /\ cmd.decodeErr = "none"
    /\ cmd.handle \in EndedTxs
    /\ lastError = NilError
    /\ \E c \in DOMAIN cursors :
          /\ cursors[c].pos >= 1
          /\ issued[c].parent \in DOMAIN buckets
          /\ issued[issued[c].parent].parent \in DOMAIN transactions

-----------------------------------------------------------------------------
(* The client, under ClientSpec. *)

\* How many times x is in the sequence seq.
Count(seq, x) == Cardinality({i \in 1..Len(seq) : seq[i] = x})

\* The call `call` of the client has returned.
Returned(call) ==
    client.call = call /\ client.pc \in {"idle", "failed"} /\ client.ret # "none"

\* View has decoded the reply to its BeginTx.
ViewHasHandle == client.call = "View" /\ Count(client.events, "txHandle") = 1

\* What View does, in order, when its handle is not 0 and every Encode succeeds.
ViewEventsWithTx == << CmdBeginTx, "txHandle", "f", CmdEndTx, "EndTx.txHandle" >>

\* What every step of Server has to satisfy when it serves View: the EndTx it
\* reads carries a handle it replied to a BeginTx, of a registered transaction.
C11_Step ==
    (cmd'.c = CmdEndTx /\ cmd' # cmd /\ cmd'.decodeErr = "none")
        => /\ cmd'.handle \in DOMAIN transactions
           /\ cmd'.handle # 0
(* C11, as amended: when View has decoded a non-zero handle h and returned,  *)
(* f was invoked exactly once, with a Tx wrapping h, before anything of      *)
(* EndTx was sent; if both Encodes of EndTx succeeded, exactly one EndTx(h)  *)
(* was sent, after f, and View returned the error of f (nil or not);         *)
(* otherwise View returned the error of the failed Encode.                   *)
C11_ViewEndsTxUnlessEncodeFails ==
    /\ [] ((Returned("View") /\ ViewHasHandle /\ client.txHandle # 0) =>
            /\ Count(client.events, "f") = 1
            /\ client.fArg = client.txHandle
            /\ client.opErr \in {NilError, ErrF}
            /\ \E k \in 3..5 : client.events = SubSeq(ViewEventsWithTx, 1, k)
            /\ client.events = ViewEventsWithTx => client.ret = client.opErr
            /\ client.events # ViewEventsWithTx => client.ret = ErrEncode)
    /\ [][C11_Step]_vars

\* C11 as the claim has it: whenever View has decoded a non-zero handle h and
\* returned, f was invoked once with h, one EndTx(h) was sent after f, and View
\* returned the error of f.
C11_ViewAlwaysEndsTx ==
    (Returned("View") /\ ViewHasHandle /\ client.txHandle # 0) =>
        /\ Count(client.events, "f") = 1
        /\ client.fArg = client.txHandle
        /\ client.events = ViewEventsWithTx
        /\ client.ret = client.opErr

\* View has returned the error of f after it sent EndTx, and Server has ended
\* the transaction.
C11_Witness ==
    /\ Returned("View") /\ client.txHandle # 0
    /\ client.events = ViewEventsWithTx
    /\ client.opErr = ErrF /\ client.ret = ErrF
    /\ cmd.c = CmdEndTx /\ cmd.handle = client.txHandle
    /\ client.txHandle \notin DOMAIN transactions

-----------------------------------------------------------------------------
(* C12: when the handle View decodes in reply to BeginTx is 0, View encodes  *)
(* the LastError command once and nothing else, never invokes f and never    *)
(* sends EndTx; it returns an error, which carries the error string it       *)
(* decoded (against Server: the error of the failed Begin), or is the error  *)
(* of the Encode or Decode that failed.                                      *)
C12_ZeroHandleAsksLastError ==
    (ViewHasHandle /\ client.txHandle = 0) =>
        /\ Count(client.events, "f") = 0
        /\ client.fArg = 0 /\ client.opErr = "none"
        /\ Count(client.events, CmdEndTx) = 0
        /\ Count(client.events, "EndTx.txHandle") = 0
        /\ \A i \in 1..Len(c2s) : c2s[i] # WCmd(CmdEndTx)
        /\ Count(client.events, CmdLastError) <= 1
        /\ Returned("View") =>
              /\ client.ret \notin {"none", NilError, "DB"}
              /\ client.ret # ErrEncode => Count(client.events, CmdLastError) = 1
              /\ Count(client.events, "lastErrorStr") = 1 =>
                    /\ client.events =
                         << CmdBeginTx, "txHandle", CmdLastError, "lastErrorStr" >>
                    /\ client.ret = client.str
                    /\ client.ret = ErrBegin
              /\ Count(client.events, "lastErrorStr") = 0 =>
                    client.ret \in {ErrEncode, ErrDecode}

\* View has returned the error of the Begin that failed in the store.
C12_Witness ==
    /\ Returned("View")
    /\ client.events = << CmdBeginTx, "txHandle", CmdLastError, "lastErrorStr" >>
    /\ client.txHandle = 0
    /\ client.ret = ErrBegin
    /\ cmd.c = CmdLastError

-----------------------------------------------------------------------------
\* What every step has to satisfy for C13: the first command Server reads on a
\* stream is the Version command of NewDB, and nothing is sent before it.
C13_Step ==
    /\ (cmd.c = NoCommand /\ cmd'.c # NoCommand) => cmd'.c = CmdVersion
    /\ (c2s = << >> /\ c2s' # << >> /\ ~client.db) => c2s' = << WCmd(CmdVersion) >>
(* C13: NewDB sends the Version command and nothing else, first on the       *)
(* stream; it decodes at most one value, one unsigned integer when it        *)
(* returns without a codec error; it returns a DB exactly when that integer  *)
(* is Version, and an error and no DB otherwise.  Against Server, whatever   *)
(* state the session is in, the integer is Version and NewDB returns a DB    *)
(* unless an Encode or Decode fails.                                         *)
C13_Handshake ==
    /\ [] (client.call = "NewDB" =>
            /\ client.events \in {<< >>, << CmdVersion >>}
            /\ Returned("NewDB") =>
                  /\ client.ret = "DB" <=> (client.v.t = "uint" /\ client.v.u = Version)
                  /\ client.ret = "DB" => client.db /\ client.events = << CmdVersion >>
                  /\ client.ret # "DB" => client.ret \in {ErrEncode, ErrDecode, ErrVersion}
                  /\ client.ret = ErrVersion <=> (client.v.t = "uint" /\ client.v.u # Version)
                  /\ (client.peer = "Server" /\ client.ret \notin {ErrEncode, ErrDecode})
                        => client.ret = "DB")
    /\ [] (~client.db => client.call \in {"none", "NewDB"})
    /\ [][C13_Step]_vars

\* NewDB has returned a DB on a stream whose session has a failed Begin behind it.
C13_Witness ==
    /\ Returned("NewDB") /\ client.ret = "DB"
    /\ client.peer = "Server"
    /\ lastError = ErrBegin
    /\ cmd.c = CmdVersion

-----------------------------------------------------------------------------
(* Listener, under ListenerSpec. *)

(* C14: once Listener has received the signal of interruptCh, it calls       *)
(* Accept no more: it has left the accept loop to close the listening socket *)
(* and return.                                                               *)
C14_InterruptEndsAcceptLoop ==
    listener.received > 0 => listener.pc \in {"Close", "returned"}

-----------------------------------------------------------------------------
(* Concurrent sessions, under SessionsSpec. *)

\* The locals of session i, running or not.
Session(i) == IF i = sessions.running THEN SessionState ELSE sessions.saved[i]
SessionIds == 1..Len(sessions.saved)

\* The transactions of the store that a session has begun: it has deferred a
\* Rollback for each.
Owned(st) ==
    {d.tx : d \in {e \in Range(st.deferred) \cup Range(st.unwound) : e.f = "tx.Rollback"}}

\* The transactions of the store that the registries of a session lead to.
Resolved(st) ==
    Range(st.transactions)
    \cup {st.buckets[b].tx : b \in DOMAIN st.buckets}
    \cup {st.cursors[c].tx : c \in DOMAIN st.cursors}

\* Every session counts its handles from 1 and its handles lead to its own
\* transactions only.
C15_Isolated ==
    /\ \A i \in SessionIds :
          LET st == Session(i)
          IN  /\ DOMAIN st.issued = 1..st.lastHandle
              /\ (DOMAIN st.transactions \cup DOMAIN st.buckets \cup DOMAIN st.cursors)
                    \subseteq 1..st.lastHandle
              /\ Resolved(st) \subseteq Owned(st)
    /\ \A i, j \in SessionIds : i # j => Owned(Session(i)) \cap Owned(Session(j)) = {}

\* What every step has to satisfy for C15.
C15_Step ==
    /\ sessions' = sessions =>
          \* a step of the running session: the locals of the others stay, its
          \* replies and its lastError are those of a session on its own, and
          \* the store changes for its own transactions only
          /\ C2_Step /\ C6_Step /\ C7_Step
          /\ \A tx \in DOMAIN dbtx : dbtx'[tx] # dbtx[tx] => tx \in Owned(SessionState)
          /\ \A tx \in DOMAIN dbtx' \ DOMAIN dbtx : tx \in Owned(SessionState')
    /\ sessions' # sessions =>
          \* the scheduler changes the running session: that session goes on
          \* with the locals it had, and the store is as it was
          /\ SessionState' = sessions.saved[sessions'.running]
          /\ sessions'.saved[sessions.running] = SessionState
          /\ \A i \in SessionIds \ {sessions.running, sessions'.running} :
                sessions'.saved[i] = sessions.saved[i]
          /\ dbtx' = dbtx
(* C15: with two sessions interleaved in any way, every session counts its   *)
(* handles from 1 in its own registries, a handle leads only to              *)
(* transactions, buckets and cursors of the session that issued it, a step   *)
(* of one session changes no local of another and rolls back no transaction  *)
(* of another, and the replies, lastError and handles of a session are those *)
(* its own state and command give, as when it runs alone.                    *)
C15_SessionsDoNotInterfere == [] C15_Isolated /\ [][C15_Step]_vars

\* Both sessions have issued handle 1 for a transaction; the first has ended
\* its own with EndTx(1), the transaction of the second is untouched.
C15_Witness ==
    /\ sessions.running = 1
    /\ cmd.c = CmdEndTx /\ cmd.handle = 1 /\ lastError = NilError
    /\ transactions = << >> /\ lastHandle = 1
    /\ 1 \in DOMAIN sessions.saved[2].transactions
    /\ dbtx[sessions.saved[2].transactions[1]] = 0
    /\ \E tx \in DOMAIN dbtx : dbtx[tx] = 1

====
